---- MODULE Spec2Model ----
(***************************************************************************)
(* Model of src/6-photo-downloader/photo_organizer.py (class               *)
(* PhotoOrganizer): download_photos, remove_duplicates, organize_photos    *)
(* and the "organize downloaded photos" branch of run().                   *)
(*                                                                         *)
(* Representation.                                                         *)
(*   - A file name is a sequence of one-character strings, so that         *)
(*     lower(), substring tests, endswith() and splitext() are computed;   *)
(*     a file that is on disk before the operation is held in the state    *)
(*     by a short string and Chars gives the characters of its name.       *)
(*   - A path is a pair <<folder, name>> (os.path.join / basename).        *)
(*   - A datetime is its proleptic-Gregorian ordinal (an integer); an      *)
(*     Optional[datetime] is <<>> for None and <<ordinal>> otherwise.      *)
(*   - A folder is a function from the names it holds to file contents.    *)
(***************************************************************************)
EXTENDS Integers, Sequences, FiniteSets, TLC

(***************************************************************************)
(* Bounds of the exploration.                                              *)
(***************************************************************************)
MaxUrls == 3
MaxFolderFiles == 3
MaxItems == 3
MaxSameDay == 28
MaxUnique == 4

(***************************************************************************)
(* Strings.                                                                *)
(***************************************************************************)
DigitChars == <<"0", "1", "2", "3", "4", "5", "6", "7", "8", "9">>

LowerLetters == <<"a", "b", "c", "d", "e", "f", "g", "h", "i", "j", "k", "l", "m",
                  "n", "o", "p", "q", "r", "s", "t", "u", "v", "w", "x", "y", "z">>

UpperLetters == <<"A", "B", "C", "D", "E", "F", "G", "H", "I", "J", "K", "L", "M",
                  "N", "O", "P", "Q", "R", "S", "T", "U", "V", "W", "X", "Y", "Z">>

\* str(n) for n >= 0
RECURSIVE Str(_)
Str(n) == IF n < 10 THEN <<DigitChars[n + 1]>>
          ELSE Str(n \div 10) \o <<DigitChars[(n % 10) + 1]>>

\* format(n, "0{w}d") for n >= 0: zero padding up to a minimum width
RECURSIVE ZeroPad(_, _)
ZeroPad(s, w) == IF Len(s) >= w THEN s ELSE ZeroPad(<<"0">> \o s, w)

\* chr(n) on the code points the program uses
Chr(n) == IF n >= 97 /\ n <= 122 THEN LowerLetters[n - 96]
          ELSE IF n >= 65 /\ n <= 90 THEN UpperLetters[n - 64]
          ELSE IF n >= 48 /\ n <= 57 THEN DigitChars[n - 47]
          ELSE "?"

LowerOf == [c \in {UpperLetters[k] : k \in 1..26} |->
               LowerLetters[CHOOSE k \in 1..26 : UpperLetters[k] = c]]

LowerChar(c) == IF c \in DOMAIN LowerOf THEN LowerOf[c] ELSE c

\* str.lower()
Lower(s) == [k \in 1..Len(s) |-> LowerChar(s[k])]

\* sub in s
Contains(s, sub) ==
    \E k \in 0..(Len(s) - Len(sub)) : SubSeq(s, k + 1, k + Len(sub)) = sub

\* s.endswith(suf)
EndsWith(s, suf) ==
    /\ Len(s) >= Len(suf)
    /\ SubSeq(s, Len(s) - Len(suf) + 1, Len(s)) = suf

\* os.path.splitext(path)[1]: from the last dot of the base name, unless that
\* dot has only dots (or nothing) before it
SplitExt(name) ==
    LET dots == {k \in 1..Len(name) : name[k] = "."}
    IN  IF dots = {} THEN <<>>
        ELSE LET last == CHOOSE k \in dots : \A j \in dots : j <= k
             IN  IF \A j \in 1..(last - 1) : name[j] = "." THEN <<>>
                 ELSE SubSeq(name, last, Len(name))

\* os.path.join(folder, filename) and os.path.basename(path)
Join(folder, name) == <<folder, name>>

Basename(path) == path[2]

(***************************************************************************)
(* Dates: datetime.strptime(s, "%Y-%m-%d"), date differences, strftime.    *)
(***************************************************************************)
IsLeap(y) == (y % 4 = 0) /\ ((y % 100 # 0) \/ (y % 400 = 0))

DaysInMonth(y, m) ==
    IF m = 2 THEN (IF IsLeap(y) THEN 29 ELSE 28)
    ELSE IF m \in {4, 6, 9, 11} THEN 30 ELSE 31

DaysBeforeYear(y) ==
    (y - 1) * 365 + ((y - 1) \div 4) - ((y - 1) \div 100) + ((y - 1) \div 400)

\* days of a common year before the first of each month
CommonDaysBeforeMonth == <<0, 31, 59, 90, 120, 151, 181, 212, 243, 273, 304, 334>>

DaysBeforeMonth(y, m) ==
    CommonDaysBeforeMonth[m] + (IF m > 2 /\ IsLeap(y) THEN 1 ELSE 0)

Ymd2Ord(ymd) == DaysBeforeYear(ymd[1]) + DaysBeforeMonth(ymd[1], ymd[2]) + ymd[3]

Ord2Ymd(n) ==
    LET y == CHOOSE yy \in (((n - 1) \div 366) + 1)..(((n - 1) \div 365) + 1) :
                 DaysBeforeYear(yy) < n /\ n <= DaysBeforeYear(yy + 1)
        r == n - DaysBeforeYear(y)
        m == CHOOSE mm \in 1..12 :
                 DaysBeforeMonth(y, mm) < r /\ r <= DaysBeforeMonth(y, mm) + DaysInMonth(y, mm)
    IN  <<y, m, r - DaysBeforeMonth(y, m)>>

\* What the user types at a date prompt: a year-month-day triple for a
\* well-formed date, <<>> for text that strptime rejects.
DateStrings == {<<2024, 12, 28>>, <<2025, 1, 4>>, <<>>}

ValidDateString(s) == s # <<>>

\* int(total_days * progress) with progress = idx / (total - 1): int() rounds
\* toward zero.  The program forms the product in double precision; for the
\* ranges explored here (and up to 10 items over 40 days) that product is the
\* exact quotient a / b.  Larger inputs can fall one short (90 days, index 7
\* of 11 items: 62 instead of 63).
IntTrunc(a, b) == IF a >= 0 THEN a \div b ELSE -((-a) \div b)


(***************************************************************************)
(* Literals.                                                               *)
(***************************************************************************)
ExtJpg == <<".", "j", "p", "g">>
ExtJpeg == <<".", "j", "p", "e", "g">>
ExtPng == <<".", "p", "n", "g">>
ExtGif == <<".", "g", "i", "f">>
ExtWebp == <<".", "w", "e", "b", "p">>

ImageExtensions == {ExtJpg, ExtJpeg, ExtPng, ExtGif, ExtWebp}

WordImage == <<"i", "m", "a", "g", "e">>
WordJpeg == <<"j", "p", "e", "g">>
WordJpg == <<"j", "p", "g">>
WordPng == <<"p", "n", "g">>
WordGif == <<"g", "i", "f">>
WordWebp == <<"w", "e", "b", "p">>

PhotoPrefix == <<"p", "h", "o", "t", "o", "_">>

NoDate == <<>>

(***************************************************************************)
(* State.                                                                  *)
(***************************************************************************)
VARIABLES
    pc,                 \* position of the single thread of control
    config,             \* self.config: date_order, naming_convention, min_file_size_kb
    i,                  \* index of the loop being executed
    \* download_photos
    urls, start_date, end_date, assign_dates, downloaded_files,
    download_folder,    \* names written under config["download_folder"]
    outcomes,           \* per attempted URL: "failed", "skipped" or "saved"
    sleeps,             \* per attempted URL: calls of time.sleep in its iteration
    supplied,           \* the caller passed both start_date and end_date
    \* remove_duplicates
    folder, thumbs, dups, all_files, thumb_files, candidate_files,
    unique_files, seen_hashes,
    pre,                \* the three folders as they were when the call began
    \* organize_photos
    files_with_dates, dated_files, undated_files, date_counters,
    organized,          \* organized folder: name -> source path copied there
    outputs,            \* copies made by the current call, in order
    caller,             \* who called organize_photos
    copy_failed,        \* <<organized folder>> as it was when a copy first raised
    \* run(), choice 4
    date_files

dlVars == <<urls, start_date, end_date, assign_dates, downloaded_files,
            download_folder, outcomes, sleeps, supplied>>

ddVars == <<folder, thumbs, dups, all_files, thumb_files, candidate_files,
            seen_hashes, pre>>

orgVars == <<files_with_dates, dated_files, undated_files, date_counters,
             organized, outputs, caller, copy_failed>>

vars == <<pc, config, i, dlVars, ddVars, unique_files, orgVars, date_files>>

EmptyFolder == [n \in {} |-> 0]

DateOrders == {"newest_first", "oldest_first"}

NamingConventions == {"YYMMDD", "YYYYMMDD", "MMDDYY", "DDMMYY", "YYYY-MM-DD"}

DefaultMinFileSizeKb == 100

DownloadFolderName == "downloads_raw"

dlIdle ==
    /\ urls = <<>> /\ start_date = NoDate /\ end_date = NoDate
    /\ assign_dates = FALSE /\ downloaded_files = <<>> /\ download_folder = {}
    /\ outcomes = <<>> /\ sleeps = <<>> /\ supplied = FALSE

ddIdle ==
    /\ folder = EmptyFolder /\ thumbs = EmptyFolder /\ dups = EmptyFolder
    /\ all_files = <<>> /\ thumb_files = <<>> /\ candidate_files = <<>>
    /\ seen_hashes = {}
    /\ pre = [folder |-> EmptyFolder, thumbs |-> EmptyFolder, dups |-> EmptyFolder,
              listing |-> <<>>]

orgIdle ==
    /\ files_with_dates = <<>> /\ dated_files = <<>> /\ undated_files = <<>>
    /\ date_counters = EmptyFolder /\ organized = EmptyFolder /\ outputs = <<>>
    /\ caller = "none" /\ copy_failed = <<>>


(***************************************************************************)
(* download_photos                                                         *)
(***************************************************************************)
UrlUpperPng == <<"x", "/", "a", ".", "P", "N", "G">>
UrlPlain == <<"x", "/", "b">>

Urls == {UrlUpperPng, UrlPlain}

\* content-type headers a server may answer with
CtJpeg == <<"i", "m", "a", "g", "e", "/", "j", "p", "e", "g">>
CtUpperBmp == <<"I", "M", "A", "G", "E", "/", "B", "M", "P">>
CtHtml == <<"t", "e", "x", "t", "/", "h", "t", "m", "l">>

ContentTypes == {CtJpeg, CtUpperBmp, CtHtml}

RECURSIVE SeqsUpTo(_, _)
SeqsUpTo(S, n) ==
    IF n = 0 THEN {<<>>}
    ELSE LET shorter == SeqsUpTo(S, n - 1)
         IN  shorter \cup {Append(q, x) : q \in {r \in shorter : Len(r) = n - 1}, x \in S}

get_file_extension(content_type, url) ==
    IF Contains(content_type, WordJpeg) \/ Contains(content_type, WordJpg) THEN ExtJpg
    ELSE IF Contains(content_type, WordPng) THEN ExtPng
    ELSE IF Contains(content_type, WordGif) THEN ExtGif
    ELSE IF Contains(content_type, WordWebp) THEN ExtWebp
    ELSE LET url_lower == Lower(url)
         IN  IF EndsWith(url_lower, ExtJpg) \/ EndsWith(url_lower, ExtJpeg) THEN ExtJpg
             ELSE IF EndsWith(url_lower, ExtPng) THEN ExtPng
             ELSE IF EndsWith(url_lower, ExtGif) THEN ExtGif
             ELSE IF EndsWith(url_lower, ExtWebp) THEN ExtWebp
             ELSE ExtJpg

\* f"photo_{i+1:04d}{ext}"
TempNameOffByOne(idx, ext) == PhotoPrefix \o ZeroPad(Str(idx), 4) \o ext

TempName(idx, ext) == PhotoPrefix \o ZeroPad(Str(idx + 1), 4) \o ext

\* lines 306-313: the date given to the item at index idx of total
DownloadPhotoDateFloor(idx, total, start, end, order) ==
    LET total_days == end - start
        days == IF total > 1 THEN (total_days * idx) \div (total - 1) ELSE 0
    IN  IF order = "newest_first" THEN end - days ELSE start + days

DownloadPhotoDate(idx, total, start, end, order) ==
    LET total_days == end - start
        days == IF total > 1 THEN IntTrunc(total_days * idx, total - 1) ELSE 0
    IN  IF order = "newest_first" THEN end - days ELSE start + days

\* line 305: "if assign_dates and start_date and end_date"
DateRequested == assign_dates /\ start_date # NoDate /\ end_date # NoDate

DownloadStart ==
    /\ pc = "download"
    /\ IF urls = <<>>
       THEN /\ pc' = "menu"
            /\ UNCHANGED <<start_date, end_date, assign_dates>>
       ELSE /\ pc' = "dl_loop"
            /\ IF start_date = NoDate \/ end_date = NoDate
               THEN \E date_choice \in {"y", "n"} :
                      IF date_choice = "y"
                      THEN \E start_date_str \in DateStrings, end_date_str \in DateStrings :
                             /\ start_date' = IF ValidDateString(start_date_str)
                                              THEN <<Ymd2Ord(start_date_str)>>
                                              ELSE start_date
                             /\ end_date' = IF ValidDateString(start_date_str)
                                               /\ ValidDateString(end_date_str)
                                            THEN <<Ymd2Ord(end_date_str)>>
                                            ELSE end_date
                             /\ assign_dates' = (ValidDateString(start_date_str)
                                                 /\ ValidDateString(end_date_str))
                      ELSE UNCHANGED <<start_date, end_date, assign_dates>>
               ELSE UNCHANGED <<start_date, end_date, assign_dates>>
    /\ i' = 0
    /\ downloaded_files' = <<>>
    /\ UNCHANGED <<config, urls, download_folder, outcomes, sleeps, supplied>>
    /\ UNCHANGED <<ddVars, unique_files, orgVars, date_files>>

DownloadSkip(kind) ==
    /\ i' = i + 1
    /\ outcomes' = Append(outcomes, kind)
    /\ sleeps' = Append(sleeps, 0)
    /\ UNCHANGED <<pc, config, urls, start_date, end_date, assign_dates,
                   downloaded_files, download_folder, supplied>>
    /\ UNCHANGED <<ddVars, unique_files, orgVars, date_files>>

\* requests.get or raise_for_status raises: caught at line 324, continue
FetchFails ==
    /\ pc = "dl_loop" /\ i < Len(urls)
    /\ DownloadSkip("failed")

\* line 290: the content type does not contain "image": continue
SkipNonImage ==
    /\ pc = "dl_loop" /\ i < Len(urls)
    /\ \E header \in ContentTypes :
         /\ ~Contains(Lower(header), WordImage)
         /\ DownloadSkip("skipped")

\* open() or write() raises: caught at line 324, continue
WriteFails ==
    /\ pc = "dl_loop" /\ i < Len(urls)
    /\ \E header \in ContentTypes :
         /\ Contains(Lower(header), WordImage)
         /\ DownloadSkip("failed")

SaveItem ==
    /\ pc = "dl_loop" /\ i < Len(urls)
    /\ \E header \in ContentTypes :
         LET content_type == Lower(header)
             ext == get_file_extension(content_type, urls[i + 1])
             temp_name == TempName(i, ext)
             temp_path == Join(DownloadFolderName, temp_name)
             photo_date == IF DateRequested
                           THEN <<DownloadPhotoDate(i, Len(urls), start_date[1],
                                                    end_date[1], config.date_order)>>
                           ELSE NoDate
         IN  /\ Contains(content_type, WordImage)
             /\ download_folder' = download_folder \cup {temp_name}
             /\ downloaded_files' = Append(downloaded_files,
                                           [path |-> temp_path, date |-> photo_date])
    /\ outcomes' = Append(outcomes, "saved")
    /\ sleeps' = Append(sleeps, 1)
    /\ i' = i + 1
    /\ UNCHANGED <<pc, config, urls, start_date, end_date, assign_dates, supplied>>
    /\ UNCHANGED <<ddVars, unique_files, orgVars, date_files>>

DownloadReturn ==
    /\ pc = "dl_loop" /\ i = Len(urls)
    /\ pc' = "menu"
    /\ UNCHANGED <<config, i, dlVars, ddVars, unique_files, orgVars, date_files>>

(***************************************************************************)
(* remove_duplicates                                                       *)
(***************************************************************************)
NameA == "a.jpg"
NameB == "b.JPG"
NameC == "c.png"
NameSm == "x_SM.gif"
NameTxt == "n.txt"

\* files a download left in the folder
PhotoNames == <<"photo_0001.jpg", "photo_0002.jpg", "photo_0003.jpg",
                "photo_0004.jpg", "photo_0005.jpg", "photo_0006.jpg">>

\* the characters of the name of a file that is on disk
Chars(name) ==
    IF name = NameA THEN <<"a", ".", "j", "p", "g">>
    ELSE IF name = NameB THEN <<"b", ".", "J", "P", "G">>
    ELSE IF name = NameC THEN <<"c", ".", "p", "n", "g">>
    ELSE IF name = NameSm THEN <<"x", "_", "S", "M", ".", "g", "i", "f">>
    ELSE IF name = NameTxt THEN <<"n", ".", "t", "x", "t">>
    ELSE PhotoPrefix
         \o ZeroPad(Str(CHOOSE k \in 1..Len(PhotoNames) : PhotoNames[k] = name), 4)
         \o ExtJpg

FileNames == {NameA, NameB, NameC, NameSm, NameTxt}

ThumbMarkers == {<<"t", "h", "u", "m", "b">>, <<"t", "h", "u", "m", "b", "n", "a", "i", "l">>, <<"_", "s", "m">>, <<"_", "x", "s">>, <<"-", "s", "m", "a", "l", "l">>, <<"m", "i", "n", "i">>}

\* File contents are numbered; content 0 is an older file left by an earlier
\* run.  SizeOf is os.path.getsize in bytes.
Contents == 1..4

SizeOf(c) == IF c = 1 THEN 102399 ELSE IF c = 2 THEN 204800 ELSE 102400

\* get_file_hash: the MD5 digest of the bytes.  Contents 3 and 4 are a
\* colliding pair: different bytes, same digest.
get_file_hash(c) == IF c = 4 THEN 3 ELSE c

ScanFolderName == "downloads_raw"
ThumbnailsFolderName == "thumbnails_backup"
DuplicatesFolderName == "duplicates_backup"

Range(q) == {q[k] : k \in 1..Len(q)}

\* [x for x in q if Test(x)]
RECURSIVE Filter(_, _)
Filter(q, keep) ==
    IF q = <<>> THEN <<>>
    ELSE (IF Head(q) \in keep THEN <<Head(q)>> ELSE <<>>) \o Filter(Tail(q), keep)

\* line 363
IsImageName(filename) ==
    LET lowered == Lower(Chars(filename))
    IN  \E e \in ImageExtensions : EndsWith(lowered, e)

\* lines 375-387
is_thumbnail_inclusive(size_bytes, basename, min_size_kb) ==
    LET filename == Lower(Chars(basename))
    IN  \/ size_bytes <= min_size_kb * 1024
        \/ \E m \in ThumbMarkers : Contains(filename, m)

is_thumbnail(size_bytes, basename, min_size_kb) ==
    LET filename == Lower(Chars(basename))
    IN  \/ size_bytes < min_size_kb * 1024          \* size / 1024 < min_size_kb
        \/ \E m \in ThumbMarkers : Contains(filename, m)

\* shutil.move(src, dst) onto a full destination path: os.rename replaces a
\* file already at dst (and the copy fallback overwrites it as well)
MoveInto(dest, name, content) == (name :> content) @@ dest

Without(f, name) == [n \in (DOMAIN f) \ {name} |-> f[n]]

DedupPhase(thumb_list, cand_list) ==
    IF thumb_list # <<>> THEN "dd_thumbs"
    ELSE IF cand_list # <<>> THEN "dd_hash" ELSE "dd_return"

DedupScanSeesThumbnails ==
    /\ pc = "dedup"
    /\ LET files == Filter([k \in 1..Len(pre.listing) |->
                                Join(ScanFolderName, pre.listing[k])],
                           {Join(ScanFolderName, n) : n \in {m \in DOMAIN folder : IsImageName(m)}})
           thumb == {f \in Range(files) :
                        is_thumbnail(SizeOf(folder[Basename(f)]), Basename(f),
                                     config.min_file_size_kb)}
       IN  /\ all_files' = files
           /\ thumb_files' = Filter(files, thumb)
           /\ candidate_files' = Filter(files, Range(files) \ thumb)
           /\ pc' = DedupPhase(thumb_files', candidate_files')
           /\ seen_hashes' = {get_file_hash(folder[Basename(f)]) : f \in thumb}
    /\ i' = 0
    /\ unique_files' = <<>>
    /\ UNCHANGED <<config, folder, thumbs, dups, pre>>
    /\ UNCHANGED <<dlVars, orgVars, date_files>>

\* lines 361-392: list the folder, keep image files, classify
DedupScan ==
    /\ pc = "dedup"
    /\ LET files == Filter([k \in 1..Len(pre.listing) |->
                                Join(ScanFolderName, pre.listing[k])],
                           {Join(ScanFolderName, n) : n \in {m \in DOMAIN folder : IsImageName(m)}})
           thumb == {f \in Range(files) :
                        is_thumbnail(SizeOf(folder[Basename(f)]), Basename(f),
                                     config.min_file_size_kb)}
       IN  /\ all_files' = files
           /\ thumb_files' = Filter(files, thumb)
           /\ candidate_files' = Filter(files, Range(files) \ thumb)
           /\ pc' = DedupPhase(thumb_files', candidate_files')
    /\ i' = 0
    /\ unique_files' = <<>>
    /\ seen_hashes' = {}
    /\ UNCHANGED <<config, folder, thumbs, dups, pre>>
    /\ UNCHANGED <<dlVars, orgVars, date_files>>

\* lines 397-400
MoveThumbnail ==
    /\ pc = "dd_thumbs"
    /\ LET filename == Basename(thumb_files[i + 1])
       IN  /\ thumbs' = MoveInto(thumbs, filename, folder[filename])
           /\ folder' = Without(folder, filename)
    /\ IF i + 1 < Len(thumb_files)
       THEN i' = i + 1 /\ pc' = pc
       ELSE i' = 0 /\ pc' = DedupPhase(<<>>, candidate_files)
    /\ UNCHANGED <<config, dups, all_files, thumb_files, candidate_files,
                   unique_files, seen_hashes, pre>>
    /\ UNCHANGED <<dlVars, orgVars, date_files>>

\* shutil.move raises (permission denied, ...): nothing catches it
MoveThumbnailFails ==
    /\ pc = "dd_thumbs"
    /\ pc' = "raised"
    /\ UNCHANGED <<config, i, dlVars, ddVars, unique_files, orgVars, date_files>>

KeepUniqueForgets ==
    /\ pc = "dd_hash"
    /\ unique_files' = Append(unique_files, candidate_files[i + 1])
    /\ IF i + 1 < Len(candidate_files)
       THEN i' = i + 1 /\ pc' = pc
       ELSE i' = 0 /\ pc' = "dd_return"
    /\ UNCHANGED <<config, folder, thumbs, dups, all_files, thumb_files,
                   candidate_files, seen_hashes, pre>>
    /\ UNCHANGED <<dlVars, orgVars, date_files>>

\* lines 409-412
KeepUnique ==
    /\ pc = "dd_hash"
    /\ LET filepath == candidate_files[i + 1]
           file_hash == get_file_hash(folder[Basename(filepath)])
       IN  /\ file_hash \notin seen_hashes
           /\ seen_hashes' = seen_hashes \cup {file_hash}
           /\ unique_files' = Append(unique_files, filepath)
    /\ IF i + 1 < Len(candidate_files)
       THEN i' = i + 1 /\ pc' = pc
       ELSE i' = 0 /\ pc' = "dd_return"
    /\ UNCHANGED <<config, folder, thumbs, dups, all_files, thumb_files,
                   candidate_files, pre>>
    /\ UNCHANGED <<dlVars, orgVars, date_files>>

\* lines 413-418
MoveDuplicate ==
    /\ pc = "dd_hash"
    /\ LET filepath == candidate_files[i + 1]
           file_hash == get_file_hash(folder[Basename(filepath)])
           filename == Basename(filepath)
       IN  /\ file_hash \in seen_hashes
           /\ dups' = MoveInto(dups, filename, folder[filename])
           /\ folder' = Without(folder, filename)
    /\ IF i + 1 < Len(candidate_files)
       THEN i' = i + 1 /\ pc' = pc
       ELSE i' = 0 /\ pc' = "dd_return"
    /\ UNCHANGED <<config, thumbs, all_files, thumb_files, candidate_files,
                   unique_files, seen_hashes, pre>>
    /\ UNCHANGED <<dlVars, orgVars, date_files>>

MoveDuplicateFails ==
    /\ pc = "dd_hash"
    /\ get_file_hash(folder[Basename(candidate_files[i + 1])]) \in seen_hashes
    /\ pc' = "raised"
    /\ UNCHANGED <<config, i, dlVars, ddVars, unique_files, orgVars, date_files>>

\* line 424
DedupReturn ==
    /\ pc = "dd_return"
    /\ pc' = "dd_done"
    /\ UNCHANGED <<config, i, dlVars, ddVars, unique_files, orgVars, date_files>>

IsDistinctSeq(q) == \A a, b \in 1..Len(q) : a # b => q[a] # q[b]

\* What an earlier run may have left in the two backup folders.
OldBackups == {EmptyFolder, [n \in {NameA, NameB, NameSm} |-> 0]}

InitDedup ==
    /\ pc = "dedup"
    /\ config \in [date_order : {"newest_first"}, naming_convention : {"YYMMDD"},
                   min_file_size_kb : {DefaultMinFileSizeKb}]
    /\ i = 0
    /\ \E listing \in {q \in SeqsUpTo(FileNames, MaxFolderFiles) : IsDistinctSeq(q)} :
         \E content \in [1..Len(listing) -> Contents] :
           \E old \in OldBackups :
             /\ \A k \in 1..Len(listing) :
                  /\ listing[k] = NameTxt => content[k] = 1
                  /\ listing[k] = NameSm => content[k] \in {1, 2}
             /\ folder = [n \in Range(listing) |->
                            content[CHOOSE k \in 1..Len(listing) : listing[k] = n]]
             /\ thumbs = old /\ dups = old
             /\ pre = [folder |-> folder, thumbs |-> old, dups |-> old,
                       listing |-> listing]
    /\ all_files = <<>> /\ thumb_files = <<>> /\ candidate_files = <<>>
    /\ seen_hashes = {} /\ unique_files = <<>>
    /\ dlIdle /\ orgIdle /\ date_files = <<>>

(***************************************************************************)
(* organize_photos                                                         *)
(***************************************************************************)
OrganizedFolderName == "photos_organized"

\* strftime fields
FieldY4(ymd) == ZeroPad(Str(ymd[1]), 4)
FieldY2(ymd) == ZeroPad(Str(ymd[1] % 100), 2)
FieldM(ymd) == ZeroPad(Str(ymd[2]), 2)
FieldD(ymd) == ZeroPad(Str(ymd[3]), 2)

format_date(date_obj, convention) ==
    LET ymd == Ord2Ymd(date_obj)
    IN  IF convention = "YYMMDD" THEN FieldY2(ymd) \o FieldM(ymd) \o FieldD(ymd)
        ELSE IF convention = "YYYYMMDD" THEN FieldY4(ymd) \o FieldM(ymd) \o FieldD(ymd)
        ELSE IF convention = "MMDDYY" THEN FieldM(ymd) \o FieldD(ymd) \o FieldY2(ymd)
        ELSE IF convention = "DDMMYY" THEN FieldD(ymd) \o FieldM(ymd) \o FieldY2(ymd)
        ELSE IF convention = "YYYY-MM-DD"
             THEN FieldY4(ymd) \o <<"-">> \o FieldM(ymd) \o <<"-">> \o FieldD(ymd)
        ELSE FieldY2(ymd) \o FieldM(ymd) \o FieldD(ymd)

create_filename_strict(base_name, counter, extension) ==
    LET suffix == IF counter < 26 THEN <<Chr(96 + counter)>> ELSE Str(counter)
    IN  base_name \o suffix \o extension

create_filename_wrap(base_name, counter, extension) ==
    base_name \o <<Chr(97 + ((counter - 1) % 26))>> \o extension

create_filename(base_name, counter, extension) ==
    LET suffix == IF counter <= 26 THEN <<Chr(96 + counter)>> ELSE Str(counter)
    IN  base_name \o suffix \o extension

UndatedNameAfterDated(idx, ext) ==
    PhotoPrefix \o ZeroPad(Str(Len(dated_files) + idx), 4) \o ext

\* f"photo_{i:04d}{ext}"
UndatedName(idx, ext) == PhotoPrefix \o ZeroPad(Str(idx), 4) \o ext

RECURSIVE InsertSortedTiesFirst(_, _, _)
InsertSortedTiesFirst(sorted, x, desc) ==
    IF sorted = <<>> THEN <<x>>
    ELSE IF (IF desc THEN x.date[1] >= Head(sorted).date[1]
                     ELSE x.date[1] <= Head(sorted).date[1])
         THEN <<x>> \o sorted
         ELSE <<Head(sorted)>> \o InsertSortedTiesFirst(Tail(sorted), x, desc)

\* list.sort(key=date, reverse=desc): stable in both directions
RECURSIVE InsertSorted(_, _, _)
InsertSorted(sorted, x, desc) ==
    IF sorted = <<>> THEN <<x>>
    ELSE IF (IF desc THEN x.date[1] > Head(sorted).date[1]
                     ELSE x.date[1] < Head(sorted).date[1])
         THEN <<x>> \o sorted
         ELSE <<Head(sorted)>> \o InsertSorted(Tail(sorted), x, desc)

RECURSIVE SortByDate(_, _)
SortByDate(q, desc) ==
    IF q = <<>> THEN <<>>
    ELSE InsertSorted(SortByDate(SubSeq(q, 1, Len(q) - 1), desc), q[Len(q)], desc)

\* [x for x in q if x has / has no date]
RECURSIVE DatedOf(_)
DatedOf(q) ==
    IF q = <<>> THEN <<>>
    ELSE (IF Head(q).date # NoDate THEN <<Head(q)>> ELSE <<>>) \o DatedOf(Tail(q))

RECURSIVE UndatedOf(_)
UndatedOf(q) ==
    IF q = <<>> THEN <<>>
    ELSE (IF Head(q).date = NoDate THEN <<Head(q).path>> ELSE <<>>) \o UndatedOf(Tail(q))

CounterOf(counters, key) == IF key \in DOMAIN counters THEN counters[key] ELSE 0

OrganizePhase(dated, undated) ==
    IF dated # <<>> THEN "org_dated"
    ELSE IF undated # <<>> THEN "org_undated" ELSE "org_return"

\* lines 436-459
OrganizeStart ==
    /\ pc = "organize"
    /\ IF files_with_dates = <<>>
       THEN /\ pc' = "menu"
            /\ UNCHANGED <<dated_files, undated_files>>
       ELSE /\ dated_files' = SortByDate(DatedOf(files_with_dates),
                                         config.date_order = "newest_first")
            /\ undated_files' = UndatedOf(files_with_dates)
            /\ pc' = OrganizePhase(dated_files', undated_files')
    /\ date_counters' = EmptyFolder
    /\ outputs' = <<>>
    /\ i' = 0
    /\ UNCHANGED <<config, files_with_dates, organized, caller, copy_failed>>
    /\ UNCHANGED <<dlVars, ddVars, unique_files, date_files>>

\* lines 461-475
OrganizeDated ==
    /\ pc = "org_dated"
    /\ LET filepath == dated_files[i + 1].path
           photo_date == dated_files[i + 1].date[1]
           date_key == format_date(photo_date, config.naming_convention)
           counter == CounterOf(date_counters, date_key) + 1
           ext == SplitExt(Chars(Basename(filepath)))
           new_name == create_filename(date_key, counter, ext)
       IN  /\ date_counters' = (date_key :> counter) @@ date_counters
           /\ organized' = (new_name :> filepath) @@ organized
           /\ outputs' = Append(outputs, [name |-> new_name, path |-> filepath,
                                          date |-> <<photo_date>>])
    /\ IF i + 1 < Len(dated_files)
       THEN i' = i + 1 /\ pc' = pc
       ELSE i' = 0 /\ pc' = OrganizePhase(<<>>, undated_files)
    /\ UNCHANGED <<config, files_with_dates, dated_files, undated_files, caller,
                   copy_failed>>
    /\ UNCHANGED <<dlVars, ddVars, unique_files, date_files>>

\* lines 481-485
OrganizeUndated ==
    /\ pc = "org_undated"
    /\ LET filepath == undated_files[i + 1]
           ext == SplitExt(Chars(Basename(filepath)))
           new_name == UndatedName(i + 1, ext)
       IN  /\ organized' = (new_name :> filepath) @@ organized
           /\ outputs' = Append(outputs, [name |-> new_name, path |-> filepath,
                                          date |-> NoDate])
    /\ IF i + 1 < Len(undated_files)
       THEN i' = i + 1 /\ pc' = pc
       ELSE i' = 0 /\ pc' = "org_return"
    /\ UNCHANGED <<config, files_with_dates, dated_files, undated_files,
                   date_counters, caller, copy_failed>>
    /\ UNCHANGED <<dlVars, ddVars, unique_files, date_files>>

\* lines 487-496
OrganizeReturn ==
    /\ pc = "org_return"
    /\ pc' = "menu"
    /\ UNCHANGED <<config, i, dlVars, ddVars, unique_files, orgVars, date_files>>

\* run(): the user organizes the same files once more
OrganizeAgain ==
    /\ pc = "menu" /\ caller = "direct" /\ outputs # <<>>
    /\ pc' = "organize"
    /\ caller' = "again"
    /\ UNCHANGED <<config, i, files_with_dates, dated_files, undated_files,
                   date_counters, organized, outputs, copy_failed>>
    /\ UNCHANGED <<dlVars, ddVars, unique_files, date_files>>

ItemPaths == {Join(ScanFolderName, NameA), Join(ScanFolderName, NameC)}

ItemDates == {NoDate, <<Ymd2Ord(<<2025, 1, 1>>)>>, <<Ymd2Ord(<<1925, 1, 1>>)>>}

Items == [path : ItemPaths, date : ItemDates]

\* many photos of one day, up to and past the 26th
SameDayLists ==
    {[k \in 1..n |-> [path |-> Join(ScanFolderName, NameA),
                      date |-> <<Ymd2Ord(<<2025, 1, 1>>)>>]] :
        n \in (MaxSameDay - 2)..MaxSameDay}

InitOrganize ==
    /\ pc = "organize"
    /\ config \in [date_order : DateOrders, naming_convention : NamingConventions,
                   min_file_size_kb : {DefaultMinFileSizeKb}]
    /\ i = 0
    /\ files_with_dates \in SeqsUpTo(Items, MaxItems) \cup SameDayLists
    /\ dated_files = <<>> /\ undated_files = <<>>
    /\ date_counters = EmptyFolder /\ organized = EmptyFolder /\ outputs = <<>>
    /\ caller = "direct" /\ copy_failed = <<>>
    /\ dlIdle /\ ddIdle /\ unique_files = <<>> /\ date_files = <<>>

(***************************************************************************)
(* run(), choice 4, after remove_duplicates has returned                   *)
(***************************************************************************)
\* lines 566-574: the date given to the file at index idx of total
RunPhotoDateFloor(idx, total, start, end, order) ==
    LET total_days == end - start
        days == IF total > 1 THEN (total_days * idx) \div (total - 1) ELSE 0
    IN  IF order = "newest_first" THEN end - days ELSE start + days

RunPhotoDateFromStart(idx, total, start, end, order) ==
    LET total_days == end - start
        days == IF total > 1 THEN IntTrunc(total_days * idx, total - 1) ELSE 0
    IN  start + days

RunPhotoDate(idx, total, start, end, order) ==
    LET total_days == end - start
        days == IF total > 1 THEN IntTrunc(total_days * idx, total - 1) ELSE 0
    IN  IF order = "newest_first" THEN end - days ELSE start + days

AllUndated(files) == [k \in 1..Len(files) |-> [path |-> files[k], date |-> NoDate]]

\* lines 552-583, up to the call of organize_photos
Menu4Organize ==
    /\ pc = "menu4"
    /\ IF unique_files = <<>>
       THEN /\ pc' = "menu"
            /\ UNCHANGED <<files_with_dates, date_files, caller, start_date, end_date>>
       ELSE /\ pc' = "organize"
            /\ \E answer \in {"y", "n"} :
                 IF answer = "y"
                 THEN \E start_date_str \in DateStrings, end_date_str \in DateStrings :
                        /\ start_date' = IF ValidDateString(start_date_str)
                                         THEN <<Ymd2Ord(start_date_str)>>
                                         ELSE start_date
                        /\ end_date' = IF ValidDateString(start_date_str)
                                          /\ ValidDateString(end_date_str)
                                       THEN <<Ymd2Ord(end_date_str)>>
                                       ELSE end_date
                        /\ IF ValidDateString(start_date_str) /\ ValidDateString(end_date_str)
                           THEN /\ date_files' =
                                     [k \in 1..Len(unique_files) |->
                                        [path |-> unique_files[k],
                                         date |-> <<RunPhotoDate(k - 1, Len(unique_files),
                                                                 start_date'[1], end_date'[1],
                                                                 config.date_order)>>]]
                                /\ files_with_dates' = date_files'
                                /\ caller' = "menu4_dated"
                           ELSE /\ date_files' = <<>>
                                /\ files_with_dates' = AllUndated(unique_files)
                                /\ caller' = "menu4_invalid"
                 ELSE /\ date_files' = <<>>
                      /\ files_with_dates' = AllUndated(unique_files)
                      /\ caller' = "menu4_undated"
                      /\ UNCHANGED <<start_date, end_date>>
    /\ UNCHANGED <<config, i, dated_files, undated_files, date_counters,
                   organized, outputs, unique_files, copy_failed>>
    /\ UNCHANGED <<urls, assign_dates, downloaded_files, download_folder,
                   outcomes, sleeps, supplied>>
    /\ UNCHANGED ddVars

\* An exception raised by shutil.copy2 leaves organize_photos.  Only the call
\* at line 578 is inside a try: its bare except (579-581) calls organize_photos
\* again with every file undated.  From the calls at 542, 581 and 583 the
\* exception leaves run().  The failed copy adds no file to the folder.
CopyRaises ==
    /\ copy_failed' = IF copy_failed = <<>> THEN <<organized>> ELSE copy_failed
    /\ IF caller = "menu4_dated"
       THEN /\ pc' = "organize"
            /\ files_with_dates' = AllUndated(unique_files)
            /\ caller' = "menu4_except"
       ELSE /\ pc' = "raised"
            /\ UNCHANGED <<files_with_dates, caller>>

\* line 475 raises
CopyDatedFails ==
    /\ pc = "org_dated"
    /\ LET date_key == format_date(dated_files[i + 1].date[1], config.naming_convention)
       IN  date_counters' = (date_key :> CounterOf(date_counters, date_key) + 1)
                               @@ date_counters
    /\ CopyRaises
    /\ UNCHANGED <<config, i, dated_files, undated_files, organized, outputs>>
    /\ UNCHANGED <<dlVars, ddVars, unique_files, date_files>>

\* line 485 raises
CopyUndatedFails ==
    /\ pc = "org_undated"
    /\ CopyRaises
    /\ UNCHANGED <<config, i, dated_files, undated_files, date_counters,
                   organized, outputs>>
    /\ UNCHANGED <<dlVars, ddVars, unique_files, date_files>>

InitMenu4 ==
    /\ pc = "menu4"
    /\ config \in [date_order : DateOrders, naming_convention : NamingConventions,
                   min_file_size_kb : {DefaultMinFileSizeKb}]
    /\ i = 0
    /\ \E n \in 0..MaxUnique :
         unique_files = [k \in 1..n |-> Join(ScanFolderName, PhotoNames[k])]
    /\ orgIdle /\ dlIdle /\ ddIdle /\ date_files = <<>>

\* the arguments a caller may pass for start_date and end_date
DateArgs ==
    LET first == <<Ymd2Ord(<<2025, 1, 1>>)>>
        second == <<Ymd2Ord(<<2025, 1, 2>>)>>
    IN  {<<NoDate, NoDate>>, <<first, NoDate>>, <<first, second>>, <<second, first>>}

InitDownload ==
    /\ pc = "download"
    /\ config \in [date_order : DateOrders, naming_convention : {"YYMMDD"},
                   min_file_size_kb : {DefaultMinFileSizeKb}]
    /\ i = 0
    /\ urls \in SeqsUpTo(Urls, MaxUrls)
    /\ \E range \in DateArgs : start_date = range[1] /\ end_date = range[2]
    /\ supplied = (start_date # NoDate /\ end_date # NoDate)
    /\ assign_dates = FALSE /\ downloaded_files = <<>> /\ download_folder = {}
    /\ outcomes = <<>> /\ sleeps = <<>>
    /\ ddIdle /\ unique_files = <<>> /\ orgIdle /\ date_files = <<>>

Init == InitDownload \/ InitDedup \/ InitOrganize \/ InitMenu4

Next ==
    \/ DownloadStart \/ FetchFails \/ SkipNonImage \/ WriteFails \/ SaveItem
    \/ DownloadReturn
    \/ DedupScan \/ MoveThumbnail \/ MoveThumbnailFails \/ KeepUnique
    \/ MoveDuplicate \/ MoveDuplicateFails \/ DedupReturn
    \/ OrganizeStart \/ OrganizeDated \/ OrganizeUndated \/ OrganizeReturn
    \/ OrganizeAgain \/ Menu4Organize \/ CopyDatedFails \/ CopyUndatedFails

Spec == Init /\ [][Next]_vars


(***************************************************************************)
(* Properties of download_photos                                           *)
(***************************************************************************)
\* 0-based indices of the URLs whose outcome is "saved", in order
RECURSIVE SavedIndices(_)
SavedIndices(out) ==
    IF out = <<>> THEN <<>>
    ELSE SavedIndices(SubSeq(out, 1, Len(out) - 1))
         \o (IF out[Len(out)] = "saved" THEN <<Len(out) - 1>> ELSE <<>>)

\* DateDistributor as the specification words it (section 4.3)
DistributorFloor(idx, total, start, end, order) ==
    LET totalDays == end - start
        offset == IF total > 1 THEN (totalDays * idx) \div (total - 1) ELSE 0
    IN  IF order = "newest_first" THEN end - offset ELSE start + offset

\* The same with the offset rounded toward zero
DistributorTowardZero(idx, total, start, end, order) ==
    LET totalDays == end - start
        magnitude == IF totalDays >= 0 THEN totalDays ELSE 0 - totalDays
        whole == IF total > 1 THEN (magnitude * idx) \div (total - 1) ELSE 0
        offset == IF totalDays >= 0 THEN whole ELSE 0 - whole
    IN  IF order = "newest_first" THEN end - offset ELSE start + offset

\* C1: when the caller supplies both start and end date, every saved item
\* carries the DateDistributor date for its URL index and none has an absent
\* date.
C1_SuppliedRangeDatesEveryItem ==
    supplied =>
        \A j \in 1..Len(downloaded_files) :
            /\ downloaded_files[j].date # NoDate
            /\ downloaded_files[j].date =
                  <<DistributorFloor(SavedIndices(outcomes)[j], Len(urls),
                                     start_date[1], end_date[1], config.date_order)>>

\* C2: every URL is attempted in input order whatever the earlier outcomes,
\* and the result holds exactly one item per saved URL, in input order, whose
\* path is photo_{i+1:04d}{ext} in the download folder, the file being written.
C2_EveryUrlAttemptedResultExact ==
    /\ pc = "dl_loop" => Len(outcomes) = i
    /\ pc = "menu" => Len(outcomes) = Len(urls)
    /\ Len(downloaded_files) = Len(SavedIndices(outcomes))
    /\ \A j \in 1..Len(downloaded_files) :
         LET idx == SavedIndices(outcomes)[j]
             name == downloaded_files[j].path[2]
         IN  /\ downloaded_files[j].path[1] = DownloadFolderName
             /\ \E ext \in {ExtJpg, ExtPng, ExtGif, ExtWebp} :
                   name = PhotoPrefix \o ZeroPad(Str(idx + 1), 4) \o ext
             /\ name \in download_folder

C2_Witness ==
    /\ pc = "menu"
    /\ outcomes = <<"failed", "skipped", "saved">>
    /\ Len(downloaded_files) = 1
    /\ downloaded_files[1].path[2] = PhotoPrefix \o <<"0", "0", "0", "3">> \o ExtPng

\* C3: every URL attempt, whatever its outcome, is followed by exactly one
\* sleep before the next attempt.
C3_SleepAfterEveryAttempt ==
    \A k \in 1..Len(sleeps) : sleeps[k] = 1

\* C10 as stated: every assigned date, in download_photos and in choice 4 of
\* run(), is end - floor(totalDays * progress) (newest first) or
\* start + floor(totalDays * progress) (oldest first), negative ranges included.
C10_FloorFormula ==
    /\ \A j \in 1..Len(downloaded_files) :
         downloaded_files[j].date # NoDate =>
            downloaded_files[j].date =
               <<DistributorFloor(SavedIndices(outcomes)[j], Len(urls),
                                  start_date[1], end_date[1], config.date_order)>>
    /\ \A m \in 1..Len(date_files) :
         date_files[m].date =
            <<DistributorFloor(m - 1, Len(date_files), start_date[1], end_date[1],
                               config.date_order)>>

\* C10 amended: every assigned date, in download_photos and in choice 4 of
\* run(), is end - t (newest first) or start + t (oldest first) where t is
\* totalDays * progress rounded toward zero; t is the floor only when
\* totalDays >= 0.
C10_TowardZeroFormula ==
    /\ \A j \in 1..Len(downloaded_files) :
         downloaded_files[j].date # NoDate =>
            downloaded_files[j].date =
               <<DistributorTowardZero(SavedIndices(outcomes)[j], Len(urls),
                                       start_date[1], end_date[1], config.date_order)>>
    /\ \A m \in 1..Len(date_files) :
         date_files[m].date =
            <<DistributorTowardZero(m - 1, Len(date_files), start_date[1], end_date[1],
                                    config.date_order)>>

C10_Witness ==
    /\ pc = "menu"
    /\ Len(urls) = 3 /\ Len(downloaded_files) = 3
    /\ start_date # NoDate /\ end_date # NoDate
    /\ end_date[1] - start_date[1] = 0 - 7
    /\ config.date_order = "newest_first"
    /\ downloaded_files[2].date = <<end_date[1] + 3>>

\* the first index is given end (newest first) or start (oldest first) and,
\* of two or more, the last index is given start (newest first) or end
BoundaryDatesExact ==
    LET first == IF config.date_order = "newest_first" THEN end_date ELSE start_date
        last == IF config.date_order = "newest_first" THEN start_date ELSE end_date
    IN  /\ \A j \in 1..Len(downloaded_files) :
             downloaded_files[j].date # NoDate =>
                LET idx == SavedIndices(outcomes)[j]
                IN  /\ idx = 0 => downloaded_files[j].date = first
                    /\ (Len(urls) >= 2 /\ idx = Len(urls) - 1) =>
                          downloaded_files[j].date = last
        /\ date_files # <<>> =>
             /\ date_files[1].date = first
             /\ Len(date_files) >= 2 => date_files[Len(date_files)].date = last

\* the dates assigned by download_photos and by choice 4 of run(), by index
AssignedDates ==
    {[k \in 1..Len(date_files) |-> date_files[k].date],
     [k \in 1..Len(downloaded_files) |-> downloaded_files[k].date]}

NonIncreasing(dates) ==
    \A a \in 1..Len(dates), b \in 1..Len(dates) :
        (a < b /\ dates[a] # NoDate /\ dates[b] # NoDate) => dates[a][1] >= dates[b][1]

NonDecreasing(dates) ==
    \A a \in 1..Len(dates), b \in 1..Len(dates) :
        (a < b /\ dates[a] # NoDate /\ dates[b] # NoDate) => dates[a][1] <= dates[b][1]

\* C11 as stated: for every total, start and end the assigned dates never
\* increase with the index when newest first and never decrease when oldest
\* first, and the boundary indices are given exactly end and start.
C11_MonotonicEveryRange ==
    /\ BoundaryDatesExact
    /\ \A dates \in AssignedDates :
         IF config.date_order = "newest_first"
         THEN NonIncreasing(dates) ELSE NonDecreasing(dates)

\* C11 amended: the boundary indices are given exactly end and start for
\* every range; the dates never increase with the index (newest first) or
\* never decrease (oldest first) when start <= end, and run the other way
\* when end is earlier than start.
C11_MonotonicBySign ==
    /\ BoundaryDatesExact
    /\ \A dates \in AssignedDates :
         (\E k \in 1..Len(dates) : dates[k] # NoDate) =>
            IF (config.date_order = "newest_first") <=> (start_date[1] <= end_date[1])
            THEN NonIncreasing(dates) ELSE NonDecreasing(dates)

C11_Witness ==
    /\ pc = "menu" /\ caller = "menu4_dated"
    /\ config.date_order = "newest_first"
    /\ Len(date_files) = 4
    /\ end_date[1] < start_date[1]
    /\ date_files[1].date = end_date
    /\ date_files[2].date[1] < date_files[3].date[1]
    /\ date_files[4].date = start_date
    /\ Len(outputs) = 4

(***************************************************************************)
(* Properties of remove_duplicates                                         *)
(***************************************************************************)
ScanPath(n) == <<ScanFolderName, n>>

ImageFileNames == {n \in FileNames : IsImageName(n)}

MarkedFileNames ==
    {n \in FileNames : \E m \in ThumbMarkers : Contains(Lower(Chars(n)), m)}

\* the image files the folder held when the call began
Scanned == (DOMAIN pre.folder) \cap ImageFileNames

ScanPos(n) == CHOOSE k \in 1..Len(pre.listing) : pre.listing[k] = n

\* section 4.4 step 2: below the size limit, or a marker in the lowercase name
SpecThumbnail(n) ==
    \/ SizeOf(pre.folder[n]) < 1024 * config.min_file_size_kb
    \/ n \in MarkedFileNames

Returned(n) == ScanPath(n) \in Range(unique_files)

MovedTo(dest, n) ==
    /\ n \in DOMAIN dest /\ dest[n] = pre.folder[n]
    /\ n \notin DOMAIN folder

\* C4: a file that already exists in thumbnailsFolder or duplicatesFolder is
\* never overwritten or changed by a move.
C4_ExistingDestinationNeverOverwritten ==
    /\ \A n \in DOMAIN pre.thumbs : n \in DOMAIN thumbs /\ thumbs[n] = pre.thumbs[n]
    /\ \A n \in DOMAIN pre.dups : n \in DOMAIN dups /\ dups[n] = pre.dups[n]

\* C5 as stated: of two byte-identical image files under different names,
\* exactly one is in the returned list and the other is in duplicatesFolder.
C5_TwoIdenticalExactlyOneKept ==
    pc = "dd_done" =>
        \A a \in Scanned, b \in Scanned :
            (a # b /\ pre.folder[a] = pre.folder[b]) =>
                \/ Returned(a) /\ ~Returned(b) /\ MovedTo(dups, b)
                \/ Returned(b) /\ ~Returned(a) /\ MovedTo(dups, a)

\* C5 amended: of two byte-identical image files under different names,
\* neither classified as a thumbnail, the one scanned later is moved to
\* duplicatesFolder and not returned, and the one scanned earlier is returned
\* unless a candidate scanned before it has the same content hash, in which
\* case it is moved to duplicatesFolder as well.
C5_TwoIdenticalCandidates ==
    pc = "dd_done" =>
        \A a \in Scanned, b \in Scanned :
            (/\ a # b /\ pre.folder[a] = pre.folder[b]
             /\ ~SpecThumbnail(a) /\ ~SpecThumbnail(b)
             /\ ScanPos(a) < ScanPos(b)) =>
                LET earlier == \E c \in Scanned :
                                  /\ ~SpecThumbnail(c) /\ ScanPos(c) < ScanPos(a)
                                  /\ get_file_hash(pre.folder[c]) = get_file_hash(pre.folder[a])
                IN  /\ ~Returned(b) /\ MovedTo(dups, b)
                    /\ Returned(a) <=> ~earlier
                    /\ earlier => MovedTo(dups, a)
                    /\ ~earlier => a \in DOMAIN folder

C5_Witness ==
    /\ pc = "dd_done"
    /\ \E a \in Scanned, b \in Scanned :
         /\ a # b /\ pre.folder[a] = pre.folder[b]
         /\ Returned(a) /\ MovedTo(dups, b)
         /\ unique_files = <<ScanPath(a)>>

\* C6: a scanned image file is a thumbnail iff its size in KB is below
\* min_file_size_kb or its lowercase name contains a marker; thumbnails end in
\* thumbnailsFolder, absent from the scanned folder and from the result, and
\* every other file goes to the hash comparison.
C6_ThumbnailClassification ==
    /\ pc \in {"dd_thumbs", "dd_hash", "dd_return", "dd_done"} =>
         \A n \in Scanned :
            /\ ScanPath(n) \in Range(thumb_files) <=> SpecThumbnail(n)
            /\ ScanPath(n) \in Range(candidate_files) <=> ~SpecThumbnail(n)
    /\ pc = "dd_done" =>
         \A n \in Scanned :
            IF SpecThumbnail(n)
            THEN MovedTo(thumbs, n) /\ ~Returned(n)
            ELSE /\ get_file_hash(pre.folder[n]) \in seen_hashes
                 /\ \/ Returned(n) /\ n \in DOMAIN folder
                    \/ ~Returned(n) /\ MovedTo(dups, n)

C6_Witness ==
    /\ pc = "dd_done"
    /\ \E n \in Scanned :
         SizeOf(pre.folder[n]) = 1024 * config.min_file_size_kb /\ Returned(n)
    /\ \E n \in Scanned :
         SizeOf(pre.folder[n]) > 1024 * config.min_file_size_kb /\ MovedTo(thumbs, n)
    /\ \E n \in Scanned :
         /\ SizeOf(pre.folder[n]) < 1024 * config.min_file_size_kb
         /\ n # NameSm /\ MovedTo(thumbs, n)

\* number of candidates the hash loop has dealt with
Hashed == IF pc = "dd_hash" THEN i ELSE Len(candidate_files)

\* content hash of the k-th candidate, as the file was when the call began
CandidateHash(k) == get_file_hash(pre.folder[candidate_files[k][2]])

\* no candidate before the k-th has its hash
FirstOfHash(k) == \A m \in 1..(k - 1) : CandidateHash(m) # CandidateHash(k)

CandidatePos(path) == CHOOSE k \in 1..Len(candidate_files) : candidate_files[k] = path

\* C13: over the candidates (the scanned image files that are no thumbnails)
\* in scan order, the first file of each content hash stays in place and is
\* appended to the result, every later file of that hash is moved to the
\* duplicates folder; the result has pairwise distinct hashes, follows the
\* scan order, and the hash of a thumbnail never makes a candidate a duplicate.
C13_FirstOfEachHashKept ==
    pc \in {"dd_hash", "dd_return", "dd_done"} =>
        /\ \A a \in 1..Len(candidate_files), b \in 1..Len(candidate_files) :
             a < b => ScanPos(candidate_files[a][2]) < ScanPos(candidate_files[b][2])
        /\ \A k \in 1..Hashed :
             LET n == candidate_files[k][2]
             IN  IF FirstOfHash(k)
                 THEN /\ Returned(n)
                      /\ n \in DOMAIN folder /\ folder[n] = pre.folder[n]
                 ELSE /\ ~Returned(n)
                      /\ MovedTo(dups, n)
        /\ \A a \in 1..Len(unique_files) :
             /\ unique_files[a] \in Range(candidate_files)
             /\ CandidatePos(unique_files[a]) <= Hashed
        /\ \A a \in 1..Len(unique_files), b \in 1..Len(unique_files) :
             a < b =>
                /\ CandidatePos(unique_files[a]) < CandidatePos(unique_files[b])
                /\ get_file_hash(pre.folder[unique_files[a][2]])
                      # get_file_hash(pre.folder[unique_files[b][2]])

C13_Witness ==
    /\ pc = "dd_done"
    /\ pre.listing = <<NameSm, NameA, NameB>>
    /\ pre.folder[NameSm] = 2 /\ pre.folder[NameA] = 2 /\ pre.folder[NameB] = 2
    /\ MovedTo(thumbs, NameSm)
    /\ unique_files = <<ScanPath(NameA)>>
    /\ NameA \in DOMAIN folder
    /\ MovedTo(dups, NameB)

(***************************************************************************)
(* Properties of organize_photos                                           *)
(***************************************************************************)
OutputKey(j) == format_date(outputs[j].date[1], config.naming_convention)

\* the date keys of the copies made so far (none for an undated copy)
RECURSIVE OutputKeysUpTo(_)
OutputKeysUpTo(n) ==
    IF n = 0 THEN <<>>
    ELSE Append(OutputKeysUpTo(n - 1),
                IF outputs[n].date # NoDate THEN OutputKey(n) ELSE <<>>)

OutputKeys == OutputKeysUpTo(Len(outputs))

\* number of dated copies up to the j-th that share its date key
KeyRank(keys, j) ==
    Cardinality({h \in 1..j : outputs[h].date # NoDate /\ keys[h] = keys[j]})

UndatedRank(j) == Cardinality({h \in 1..j : outputs[h].date = NoDate})

\* position in the input of the n-th item without a date
NthUndatedInput(n) ==
    CHOOSE q \in 1..Len(files_with_dates) :
        /\ files_with_dates[q].date = NoDate
        /\ Cardinality({h \in 1..q : files_with_dates[h].date = NoDate}) = n

\* C12: once a copy has failed during the organize step of choice 4 of run(),
\* the operation is aborted and control is back at the menu; no file is copied
\* into the organized folder by that menu action after the failure.
C12_CopyFailureAborts ==
    (/\ copy_failed # <<>>
     /\ caller \in {"menu4_dated", "menu4_invalid", "menu4_undated", "menu4_except"}) =>
        /\ organized = copy_failed[1]
        /\ pc = "menu"

\* items or copies as <<path, date>>, the dated ones only
DatedPairs(q) ==
    SelectSeq([k \in 1..Len(q) |-> <<q[k].path, q[k].date>>], LAMBDA x : x[2] # NoDate)

PairsOfDate(pairs, date) == SelectSeq(pairs, LAMBDA x : x[2] = date)

PairsOfKey(pairs, key) ==
    SelectSeq(pairs, LAMBDA x : format_date(x[2][1], config.naming_convention) = key)

\* the date keys of dated <<path, date>> pairs
RECURSIVE KeysOf(_)
KeysOf(pairs) ==
    IF pairs = <<>> THEN <<>>
    ELSE Append(KeysOf(SubSeq(pairs, 1, Len(pairs) - 1)),
                format_date(pairs[Len(pairs)][2][1], config.naming_convention))

IsPrefix(p, q) == Len(p) <= Len(q) /\ SubSeq(q, 1, Len(p)) = p

RECURSIVE DigitsValue(_)
DigitsValue(digits) ==
    IF digits = <<>> THEN 0
    ELSE 10 * DigitsValue(SubSeq(digits, 1, Len(digits) - 1))
         + (CHOOSE d \in 0..9 : DigitChars[d + 1] = digits[Len(digits)])

\* the suffix read back from the name of the j-th copy, as a number: a = 1,
\* ..., z = 26, digits by their value
SuffixNumber(keys, j) ==
    LET name == outputs[j].name
        ext == SplitExt(Chars(outputs[j].path[2]))
        suffix == SubSeq(name, Len(keys[j]) + 1, Len(name) - Len(ext))
    IN  IF Len(suffix) = 1 /\ \E k \in 1..26 : LowerLetters[k] = suffix[1]
        THEN CHOOSE k \in 1..26 : LowerLetters[k] = suffix[1]
        ELSE DigitsValue(suffix)

\* the suffix numbers of the first n copies
RECURSIVE SuffixNumbers(_, _)
SuffixNumbers(keys, n) ==
    IF n = 0 THEN <<>> ELSE Append(SuffixNumbers(keys, n - 1), SuffixNumber(keys, n))

\* the dated items are copied in date order, descending when newest first and
\* ascending otherwise, items of one date in input order, and under one date
\* key a later copy has a later suffix
CopiedInStableDateOrder(keys, input, copies, suffixes) ==
    /\ \A a \in 1..Len(dated_files), b \in 1..Len(dated_files) :
         a < b => IF config.date_order = "newest_first"
                  THEN dated_files[a].date[1] >= dated_files[b].date[1]
                  ELSE dated_files[a].date[1] <= dated_files[b].date[1]
    /\ IsPrefix(copies, DatedPairs(dated_files))
    /\ \A date \in {input[k][2] : k \in 1..Len(input)} :
         /\ PairsOfDate(DatedPairs(dated_files), date) = PairsOfDate(input, date)
         /\ IsPrefix(PairsOfDate(copies, date), PairsOfDate(input, date))
    /\ \A a \in 1..Len(copies), b \in 1..Len(copies) :
         (a < b /\ keys[a] = keys[b]) => suffixes[a] < suffixes[b]

\* C14 as stated: dated items are copied in date order, descending when
\* newest first and ascending otherwise, the sort keeps the input order of
\* equal dates, and within one date key the earlier input item gets the
\* earlier suffix.
C14_EarlierInputEarlierSuffixPerKey ==
    pc # "organize" =>
        LET input == DatedPairs(files_with_dates)
            copies == DatedPairs(outputs)
            keys == KeysOf(copies)
            suffixes == SuffixNumbers(keys, Len(copies))
        IN  /\ CopiedInStableDateOrder(keys, input, copies, suffixes)
            /\ \A j \in 1..Len(copies) :
                 IsPrefix(PairsOfKey(copies, keys[j]), PairsOfKey(input, keys[j]))

\* C14 amended: dated items are copied in date order, descending when newest
\* first and ascending otherwise, the sort keeps the input order of equal
\* dates, and among items of one date the earlier input item gets the earlier
\* suffix; items of different dates that share a date key get their suffixes
\* in date order, whatever their input order.
C14_EarlierInputEarlierSuffixPerDate ==
    pc # "organize" =>
        LET input == DatedPairs(files_with_dates)
            copies == DatedPairs(outputs)
            keys == KeysOf(copies)
            suffixes == SuffixNumbers(keys, Len(copies))
        IN  /\ CopiedInStableDateOrder(keys, input, copies, suffixes)
            /\ \A a \in 1..Len(copies), b \in 1..Len(copies) :
                 (/\ keys[a] = keys[b]
                  /\ IF config.date_order = "newest_first"
                     THEN copies[a][2][1] > copies[b][2][1]
                     ELSE copies[a][2][1] < copies[b][2][1]) =>
                    suffixes[a] < suffixes[b]

C14_Witness ==
    /\ pc = "menu"
    /\ config.date_order = "newest_first" /\ config.naming_convention = "YYMMDD"
    /\ Len(files_with_dates) = 3 /\ Len(outputs) = 3
    /\ \A k \in 1..3 : files_with_dates[k].date # NoDate
    /\ files_with_dates[1].date[1] < files_with_dates[2].date[1]
    /\ files_with_dates[2].date = files_with_dates[3].date
    /\ files_with_dates[2].path[2] = NameC /\ files_with_dates[3].path[2] = NameA
    /\ outputs[1].name = <<"2", "5", "0", "1", "0", "1", "a">> \o ExtPng
    /\ outputs[2].name = <<"2", "5", "0", "1", "0", "1", "b">> \o ExtJpg
    /\ outputs[3].name = <<"2", "5", "0", "1", "0", "1", "c">> \o ExtJpg
    /\ outputs[3].date = files_with_dates[1].date

\* C7: the names given to the items of one organize call are pairwise
\* distinct, so no copy of the call overwrites an earlier copy of the call.
C7_OutputNamesDistinct ==
    /\ \A a \in 1..Len(outputs), b \in 1..Len(outputs) :
         a # b => outputs[a].name # outputs[b].name
    /\ \A a \in 1..Len(outputs) :
         /\ outputs[a].name \in DOMAIN organized
         /\ organized[outputs[a].name] = outputs[a].path

C7_Witness ==
    /\ pc = "menu"
    /\ Len(outputs) = 3
    /\ \E a \in 1..3, b \in 1..3 :
         /\ outputs[a].date # NoDate /\ outputs[b].date # NoDate
         /\ outputs[a].date # outputs[b].date
         /\ OutputKey(a) = OutputKey(b)
    /\ \E a \in 1..3 : outputs[a].date = NoDate

\* C8: the k-th dated item processed for a date key in one organize call is
\* named key + suffix + extension, the suffix being the k-th lowercase letter
\* for k <= 26 and the decimal string of k from 27 on; k starts again at 1 in
\* every call.
C8_DatedSuffix ==
    LET keys == OutputKeys
    IN  \A j \in 1..Len(outputs) :
            outputs[j].date # NoDate =>
                LET k == KeyRank(keys, j)
                    suffix == IF k <= 26 THEN <<LowerLetters[k]>> ELSE Str(k)
                IN  outputs[j].name =
                       keys[j] \o suffix \o SplitExt(Chars(outputs[j].path[2]))

C8_Witness ==
    /\ caller = "again"
    /\ Len(outputs) >= 27
    /\ outputs[1].name = <<"2", "5", "0", "1", "0", "1", "a">> \o ExtJpg
    /\ outputs[26].name = <<"2", "5", "0", "1", "0", "1", "z">> \o ExtJpg
    /\ outputs[27].name = <<"2", "5", "0", "1", "0", "1", "2", "7">> \o ExtJpg

\* C9: the n-th item without a date, in input order, is named
\* photo_{n:04d} + its extension, however many dated items there are.
C9_UndatedNames ==
    \A j \in 1..Len(outputs) :
        outputs[j].date = NoDate =>
            LET n == UndatedRank(j)
            IN  /\ outputs[j].path = files_with_dates[NthUndatedInput(n)].path
                /\ outputs[j].name =
                      PhotoPrefix \o ZeroPad(Str(n), 4) \o SplitExt(Chars(outputs[j].path[2]))

C9_Witness ==
    /\ pc = "menu"
    /\ Len(files_with_dates) = 3
    /\ files_with_dates[1].date = NoDate /\ files_with_dates[1].path[2] = NameA
    /\ files_with_dates[2].date # NoDate
    /\ files_with_dates[3].date = NoDate /\ files_with_dates[3].path[2] = NameC
    /\ outputs[2].name = PhotoPrefix \o <<"0", "0", "0", "1">> \o ExtJpg
    /\ outputs[3].name = PhotoPrefix \o <<"0", "0", "0", "2">> \o ExtPng

====
